---- MODULE Spec2Model ----
(***************************************************************************)
(* Model of the aliquot sequence generator (src/src/aliquot.rs): the       *)
(* classification type AliquotSeq<T> and its views, the divisor sum        *)
(* Generator::aliquot_sum, the memoising Cache (store, LUT, element        *)
(* count) and the classifier Generator::aliquot_seq; and of the binary     *)
(* (src/src/main.rs): range parsing, work distribution, worker threads     *)
(* and the join loop.                                                      *)
(*                                                                         *)
(* The numeric domain T is the narrowest instantiation of the Number       *)
(* trait, u16 (src/src/types.rs:42).  usize values (lengths, cache_count,  *)
(* max_cache_size) stay far below 2^31 in every run of the model, so they  *)
(* are plain naturals; the one place where usize arithmetic can leave its  *)
(* range, max_cache_size - cache_count in Cache::add, is modelled by what  *)
(* the two build profiles of Rust do with it (panic or wrap).              *)
(***************************************************************************)
EXTENDS Integers, Sequences, FiniteSets, TLC

VARIABLES
    gener,            \* the Generator: max_num, max_len_seq and its Cache
    overflow_checks,  \* build profile: TRUE = arithmetic overflow panics (debug)
    panicked,         \* the thread running the Generator has panicked
    calls,            \* number of aliquot_seq calls made so far
    last,             \* observation of the latest aliquot_seq call
    sum_n, sum_res,   \* input and result of a stand-alone aliquot_sum call
    val, val_views,   \* a classification value and its computed views
    cch,              \* a Cache used directly through add, clear and get
    fresh,            \* a Cache created when cch was last cleared (or created)
                      \* that has received every add made to cch since then
    cop,              \* observation of the latest operation on cch
    accepted_sum,     \* sum of len() of the classifications cch accepted
    adds, clears,     \* number of add and clear calls made on cch
    args,             \* the command line of the binary, as parsed values
    mn,               \* the main thread inside run(): position and locals
    wk                \* the worker threads: position, workload, Generator, output

cache_vars == <<cch, fresh, cop, accepted_sum, adds, clears>>
main_vars == <<args, mn, wk>>

vars == <<gener, overflow_checks, panicked, calls, last, sum_n, sum_res, val, val_views,
          cache_vars, main_vars>>

(***************************************************************************)
(* Numeric Domain Contract: Number for u16                                 *)
(***************************************************************************)
ZERO == 0
ONE == 1
TWO == 2
MAX == 65535

\* Generator::new(): default step budget and cache size
DefaultMaxLenSeq == 1000000
DefaultMaxCacheSize == 1000000

\* A value of type T after an arithmetic operation of a build without
\* overflow checks: reduced modulo 2^16.
WrapT(x) == x % (MAX + 1)

(***************************************************************************)
(* AliquotSeq<T>: a classification is a record  kind, v, c  where v is the *)
(* payload list (the one number, the pair, the Vec, or the first Vec of    *)
(* IntoCycle) and c the second Vec of IntoCycle (empty otherwise).         *)
(***************************************************************************)
PerfectNumber(n) == [kind |-> "PerfectNumber", v |-> <<n>>, c |-> <<>>]
PrimeNumber(n, one) == [kind |-> "PrimeNumber", v |-> <<n, one>>, c |-> <<>>]
Convergent(v) == [kind |-> "Convergent", v |-> v, c |-> <<>>]
AmicableNumber(n, m) == [kind |-> "AmicableNumber", v |-> <<n, m>>, c |-> <<>>]
SociableNumber(v) == [kind |-> "SociableNumber", v |-> v, c |-> <<>>]
AspiringNumber(v) == [kind |-> "AspiringNumber", v |-> v, c |-> <<>>]
IntoCycle(v0, v1) == [kind |-> "IntoCycle", v |-> v0, c |-> v1]
Unknown(v) == [kind |-> "Unknown", v |-> v, c |-> <<>>]

\* Option::None of Cache::get
None == [kind |-> "None", v |-> <<>>, c |-> <<>>]

Kinds == {"PerfectNumber", "PrimeNumber", "Convergent", "AmicableNumber",
          "SociableNumber", "AspiringNumber", "IntoCycle", "Unknown"}

\* A faulty variant of number: IntoCycle answers with the head of its cycle.
number_cycle_head(a) == IF a.kind = "IntoCycle" THEN a.c[1] ELSE a.v[1]

\* AliquotSeq::number: the first number of the payload
number(a) ==
    CASE a.kind = "PerfectNumber" -> a.v[1]
      [] a.kind = "PrimeNumber" -> a.v[1]
      [] a.kind = "Convergent" -> a.v[1]
      [] a.kind = "AmicableNumber" -> a.v[1]
      [] a.kind = "SociableNumber" -> a.v[1]
      [] a.kind = "AspiringNumber" -> a.v[1]
      [] a.kind = "IntoCycle" -> a.v[1]
      [] a.kind = "Unknown" -> a.v[1]

\* A faulty variant of len: IntoCycle counts its first list only.
len_prefix_only(a) ==
    CASE a.kind = "PerfectNumber" -> 1
      [] a.kind = "PrimeNumber" -> 2
      [] a.kind = "AmicableNumber" -> 2
      [] OTHER -> Len(a.v)

\* AliquotSeq::len
len(a) ==
    CASE a.kind = "PerfectNumber" -> 1
      [] a.kind = "PrimeNumber" -> 2
      [] a.kind = "Convergent" -> Len(a.v)
      [] a.kind = "AmicableNumber" -> 2
      [] a.kind = "SociableNumber" -> Len(a.v)
      [] a.kind = "AspiringNumber" -> Len(a.v)
      [] a.kind = "IntoCycle" -> Len(a.v) + Len(a.c)
      [] a.kind = "Unknown" -> Len(a.v)

\* AliquotSeq::seq: the plain sequence
seq(a) ==
    CASE a.kind = "PerfectNumber" -> <<a.v[1]>>
      [] a.kind = "PrimeNumber" -> <<a.v[1], a.v[2]>>
      [] a.kind = "Convergent" -> a.v
      [] a.kind = "AmicableNumber" -> <<a.v[1], a.v[2]>>
      [] a.kind = "SociableNumber" -> a.v
      [] a.kind = "AspiringNumber" -> a.v
      [] a.kind = "IntoCycle" -> a.v \o a.c
      [] a.kind = "Unknown" -> a.v

\* AliquotSeq::cycles
cycles(a) == a.kind \in {"AmicableNumber", "SociableNumber", "IntoCycle"}

(***************************************************************************)
(* Generator::aliquot_sum.  A result is  ok, val, ovf : ok = FALSE is      *)
(* Err(OverflowError); ovf records that some intermediate value of type T  *)
(* left 0..MAX (it is then reduced modulo 2^16, or the build panics).      *)
(***************************************************************************)
\* one Newton term (x0 + k / x0) / 2 and whether x0 + k / x0 left the domain
NewtonTerm(k, x0) ==
    LET t == x0 + (k \div x0)
    IN  [x |-> WrapT(t) \div TWO, ovf |-> t > MAX]

RECURSIVE isqrt_loop(_, _, _, _)
isqrt_loop(k, x0, x1, ovf) ==
    IF x1 < x0
    THEN LET t == NewtonTerm(k, x1) IN isqrt_loop(k, x1, t.x, ovf \/ t.ovf)
    ELSE [x |-> x0, ovf |-> ovf]

\* the closure isqrt of aliquot_sum
isqrt(k) ==
    IF k <= ONE
    THEN [x |-> k, ovf |-> FALSE]
    ELSE LET x0 == k \div TWO
             t == NewtonTerm(k, x0)
         IN  isqrt_loop(k, x0, t.x, t.ovf)

\* let end = isqrt(n) + T::ONE
sum_end(n) ==
    LET r == isqrt(n)
    IN  [x |-> WrapT(r.x + ONE), ovf |-> r.ovf \/ r.x + ONE > MAX]

\* A faulty variant of divisor_add: the square-root divisor is counted twice.
divisor_add_twice(i, div) == i + div

\* let add = if i != div { i + div } else { i }
divisor_add(i, div) == IF i # div THEN i + div ELSE i

\* A faulty variant of sum_overflows: the addition is never refused.
sum_overflows_never(add, sum) == FALSE

\* if add > (T::MAX - sum)
sum_overflows(add, sum) == add > (MAX - sum)

\* one iteration of  for i in start..end  on the loop state  ok, val, ovf
\* (val is the running sum); after Err the remaining iterations do nothing
sum_body(n, st, i) ==
    IF ~st.ok
    THEN st
    ELSE LET div == n \div i
             chk == i * div
             o1 == st.ovf \/ chk > MAX
         IN  IF WrapT(chk) = n
             THEN LET a == divisor_add(i, div)
                      o2 == o1 \/ a > MAX
                  IN  IF sum_overflows(WrapT(a), st.val)
                      THEN [ok |-> FALSE, val |-> st.val, ovf |-> o2]
                      ELSE [ok |-> TRUE, val |-> WrapT(st.val + WrapT(a)),
                            ovf |-> o2 \/ st.val + WrapT(a) > MAX]
             ELSE [st EXCEPT !.ovf = o1]

\* the iterations lo, lo + 1, ..., hi - 1 in this order, left after the first
\* Err (the range is halved to keep the evaluation shallow)
RECURSIVE sum_loop(_, _, _, _)
sum_loop(n, st, lo, hi) ==
    IF lo >= hi
    THEN st
    ELSE IF hi = lo + 1
    THEN sum_body(n, st, lo)
    ELSE LET mid == (lo + hi) \div 2
             left == sum_loop(n, st, lo, mid)
         IN  IF left.ok THEN sum_loop(n, left, mid, hi) ELSE left

aliquot_sum(n) ==
    IF n <= ONE
    THEN [ok |-> TRUE, val |-> ZERO, ovf |-> FALSE]
    ELSE LET end == sum_end(n)
         IN  sum_loop(n, [ok |-> TRUE, val |-> ONE, ovf |-> end.ovf], TWO, end.x)

(***************************************************************************)
(* Starting numbers of the model, and the divisor sums of every number a   *)
(* sequence from them can contain, tabulated once.                         *)
(***************************************************************************)
MaxN == 4          \* the numbers 0..MaxN are starting numbers

\* Starting numbers beyond 0..MaxN: a perfect number, a convergent one, two
\* aspiring ones, the amicable pair 220/284 and 562 which runs into it, two
\* members of the sociable cycle of 12496, 9464 and 18922 which run into
\* it, and 25200 whose divisor sum does not fit u16.
Specials == {6, 9, 25, 95, 220, 284, 562, 12496, 14288, 9464, 18922, 25200, 10080}

Inputs == (0..MaxN) \cup Specials

RECURSIVE SumClosure(_)
SumClosure(S) ==
    LET T == S \cup {aliquot_sum(x).val : x \in {y \in S : aliquot_sum(y).ok}}
    IN  IF T = S THEN S ELSE SumClosure(T)

SumTable == [x \in SumClosure(Inputs) |-> aliquot_sum(x)]

\* Self::aliquot_sum(last) as called by aliquot_seq
Self_aliquot_sum(n) == IF n \in DOMAIN SumTable THEN SumTable[n] ELSE aliquot_sum(n)

(***************************************************************************)
(* Cache<T>: a record  max_cache_size, cache_count, cache, cache_lut.      *)
(* The two HashMaps are functions whose DOMAIN is the set of keys.         *)
(***************************************************************************)
EmptyMap == [k \in {} |-> None]

\* HashMap::insert: the value of an existing key is replaced
insert(map, k, x) == [y \in DOMAIN map \cup {k} |-> IF y = k THEN x ELSE map[y]]

\* Cache::new
CacheNew(max_cache_size) ==
    [max_cache_size |-> max_cache_size,
     cache_count |-> 0,
     cache |-> EmptyMap,
     cache_lut |-> EmptyMap]

\* the numbers of seq.iter().skip(1) that are registered: s > T::ONE
lut_members(sq) == {sq[i] : i \in {j \in 2..Len(sq) : sq[j] > ONE}}

\* Cache::add_seq_lut
add_seq_lut(self, n, sq) ==
    [self EXCEPT
        !.cache_lut = [x \in DOMAIN self.cache_lut \cup lut_members(sq) |->
                          IF x \in lut_members(sq) THEN n ELSE self.cache_lut[x]],
        !.cache_count = @ + (Len(sq) - 1)]

\* max_cache_size - cache_count leaves the range of usize
budget_underflows(self) == self.cache_count > self.max_cache_size

\* Cache::add panics: the subtraction underflows in a build with overflow checks
add_panics(self) == overflow_checks /\ budget_underflows(self)

\* if len < (self.max_cache_size - self.cache_count).  Without overflow checks
\* an underflowing subtraction wraps to 2^64 - (cache_count - max_cache_size),
\* which is above every length.
fits(self, l) ==
    IF budget_underflows(self)
    THEN TRUE
    ELSE l < (self.max_cache_size - self.cache_count)

\* add stores its argument: it fits and its number is no key yet
add_accepts(self, a) == fits(self, len(a)) /\ number(a) \notin DOMAIN self.cache

\* the list add hands to add_seq_lut (IntoCycle(ref seq, _): the first list)
lut_source(a) == a.v

\* A faulty variant of add: the entry is registered and counted but the store
\* never receives it.
add_without_store(self, a) ==
    LET l == len(a)
        n == number(a)
    IN  IF fits(self, l) /\ n \notin DOMAIN self.cache
        THEN LET s1 == IF a.kind \in {"Convergent", "SociableNumber", "AspiringNumber",
                                      "IntoCycle", "Unknown"}
                       THEN add_seq_lut(self, n, lut_source(a))
                       ELSE self
             IN  [s1 EXCEPT !.cache_count = @ + l]
        ELSE self

\* A faulty variant of add: the mirror entry of an amicable pair is stored
\* under the second member without swapping the pair.
add_mirror_unswapped(self, a) ==
    LET l == len(a)
        n == number(a)
    IN  IF fits(self, l) /\ n \notin DOMAIN self.cache
        THEN LET s1 == CASE a.kind \in {"Convergent", "SociableNumber", "AspiringNumber",
                                        "IntoCycle", "Unknown"} ->
                                add_seq_lut(self, n, lut_source(a))
                         [] a.kind = "AmicableNumber" ->
                                [self EXCEPT !.cache = insert(@, a.v[2], a)]
                         [] OTHER -> self
             IN  [s1 EXCEPT !.cache = insert(@, n, a), !.cache_count = @ + l]
        ELSE self

\* A faulty variant of add: an AmicableNumber is stored under its own key
\* only, without the entry in reverse order.
add_no_mirror(self, a) ==
    LET l == len(a)
        n == number(a)
    IN  IF fits(self, l) /\ n \notin DOMAIN self.cache
        THEN LET s1 == CASE a.kind \in {"Convergent", "SociableNumber", "AspiringNumber",
                                        "IntoCycle", "Unknown"} ->
                                add_seq_lut(self, n, lut_source(a))
                         [] OTHER -> self
             IN  [s1 EXCEPT !.cache = insert(@, n, a), !.cache_count = @ + l]
        ELSE self

\* Cache::add, for a call that does not panic
add(self, a) ==
    LET l == len(a)
        n == number(a)
    IN  IF fits(self, l)
        THEN IF n \notin DOMAIN self.cache
             THEN LET s1 == CASE a.kind \in {"Convergent", "SociableNumber", "AspiringNumber",
                                             "IntoCycle", "Unknown"} ->
                                     add_seq_lut(self, n, lut_source(a))
                              [] a.kind = "AmicableNumber" ->
                                     [self EXCEPT !.cache =
                                         insert(@, a.v[2], AmicableNumber(a.v[2], n))]
                              [] OTHER -> self
                  IN  [s1 EXCEPT !.cache = insert(@, n, a), !.cache_count = @ + l]
             ELSE self
        ELSE self

\* A faulty variant of clear: the element count is not reset.
clear_store_only(self) == [self EXCEPT !.cache = EmptyMap]

\* Cache::clear
clear(self) == [self EXCEPT !.cache_count = 0, !.cache = EmptyMap]

\* Cache::n_seq
n_seq(self) == Cardinality(DOMAIN self.cache)

\* Cache::count
count(self) == self.cache_count

\* the closure find_pos_n of Cache::get: the 0-based position of the first
\* occurrence of n in sq, -1 for Option::None
find_pos_n(sq, n) ==
    IF \E i \in 1..Len(sq) : sq[i] = n
    THEN (CHOOSE i \in 1..Len(sq) : sq[i] = n /\ \A j \in 1..(i - 1) : sq[j] # n) - 1
    ELSE -1

\* seq[pos..].to_vec()
\* A faulty variant of slice_from: the slice starts one element late.
slice_from_after(sq, pos) == SubSeq(sq, pos + 2, Len(sq))

slice_from(sq, pos) == SubSeq(sq, pos + 1, Len(sq))

\* if pos < (seq.len() - 1)
\* A faulty variant of tail_has_successor: the last position passes.
tail_has_successor_or_last(pos, sq) == pos <= (Len(sq) - 1)

tail_has_successor(pos, sq) == pos < (Len(sq) - 1)

\* A faulty variant of rotate: the cycle is cut at pos instead of rotated.
rotate_cut(sq, pos) == slice_from(sq, pos)

\* seq[pos..] followed by seq[0..pos]
rotate(sq, pos) == slice_from(sq, pos) \o SubSeq(sq, 1, pos)

\* the reconstruction branch of Cache::get: n is no key, cache_lut maps n to p
reconstruct(self, n, p) ==
    IF p \notin DOMAIN self.cache
    THEN None
    ELSE LET e == self.cache[p]
             pos == find_pos_n(e.v, n)
         IN  CASE e.kind = "Convergent" ->
                      IF pos >= 0 /\ tail_has_successor(pos, e.v)
                      THEN Convergent(slice_from(e.v, pos)) ELSE None
               [] e.kind = "AspiringNumber" ->
                      IF pos >= 0 /\ tail_has_successor(pos, e.v)
                      THEN AspiringNumber(slice_from(e.v, pos)) ELSE None
               [] e.kind = "SociableNumber" ->
                      IF pos >= 0
                      THEN SociableNumber(rotate(e.v, pos)) ELSE None
               [] e.kind = "IntoCycle" ->
                      IF pos >= 0
                      THEN IntoCycle(slice_from(e.v, pos), e.c) ELSE None
               [] e.kind = "Unknown" ->
                      IF pos >= 0 /\ tail_has_successor(pos, e.v)
                      THEN Unknown(slice_from(e.v, pos)) ELSE None
               [] OTHER -> None

\* Cache::get
get(self, n) ==
    IF n \in DOMAIN self.cache
    THEN self.cache[n]
    ELSE IF n \in DOMAIN self.cache_lut
         THEN reconstruct(self, n, self.cache_lut[n])
         ELSE None

(***************************************************************************)
(* Generator<T>: a record  max_num, max_len_seq, cache.                    *)
(* aliquot_seq is computed as an outcome  ret, add, path, sums : the       *)
(* classification returned, whether it goes through cache.add_and_return,  *)
(* the branch that produced it, and the number of aliquot_sum evaluations.  *)
(***************************************************************************)
\* Generator::with_params
with_params(max_num, max_len_seq, max_cache_size) ==
    [max_num |-> max_num,
     max_len_seq |-> max_len_seq,
     cache |-> CacheNew(max_cache_size)]

\* Generator::new
GeneratorNew == with_params(MAX, DefaultMaxLenSeq, DefaultMaxCacheSize)

Outcome(ret, add_it, path, sums) ==
    [ret |-> ret, add |-> add_it, path |-> path, sums |-> sums]

\* A faulty variant of is_undefined: only 0 is treated as undefined.
is_undefined_zero_only(n) == n = ZERO

\* if n == T::ZERO || n == T::ONE
is_undefined(n) == n = ZERO \/ n = ONE

\* A faulty variant of exceeds_max_num: the ceiling of the type is used in
\* place of the configured one.
exceeds_type_max(self, next) == next >= MAX

\* if next >= self.max_num
exceeds_max_num(self, next) == next >= self.max_num

\* A faulty variant of splice_list: the in-progress sequence is dropped.
splice_list_tail_only(sq, v) == v

\* seq.extend_from_slice(v.as_slice())
splice_list(sq, v) == sq \o v

\* A faulty variant of splice: the row of a cached AspiringNumber builds a
\* Convergent, as the row above it does.
splice_aspiring_as_convergent(n, next, sq, hit, sums) ==
    CASE hit.kind = "PerfectNumber" ->
             Outcome(AspiringNumber(Append(sq, hit.v[1])), TRUE, "splice", sums)
      [] hit.kind = "PrimeNumber" ->
             Outcome(Convergent(Append(Append(sq, hit.v[1]), hit.v[2])), TRUE, "splice", sums)
      [] hit.kind = "Convergent" ->
             Outcome(Convergent(splice_list(sq, hit.v)), TRUE, "splice", sums)
      [] hit.kind = "AmicableNumber" ->
             IF hit.v[1] = next /\ hit.v[2] = n
             THEN Outcome(AmicableNumber(n, next), FALSE, "amicable_reverse", sums)
             ELSE Outcome(IntoCycle(sq, <<hit.v[1], hit.v[2]>>), TRUE, "splice", sums)
      [] hit.kind = "SociableNumber" ->
             Outcome(IntoCycle(sq, hit.v), TRUE, "splice", sums)
      [] hit.kind = "AspiringNumber" ->
             Outcome(Convergent(splice_list(sq, hit.v)), TRUE, "splice", sums)
      [] hit.kind = "IntoCycle" ->
             Outcome(IntoCycle(splice_list(sq, hit.v), hit.c), TRUE, "splice", sums)
      [] hit.kind = "Unknown" ->
             Outcome(Unknown(splice_list(sq, hit.v)), TRUE, "splice", sums)

\* the match on the cached classification found for next
splice(n, next, sq, hit, sums) ==
    CASE hit.kind = "PerfectNumber" ->
             Outcome(AspiringNumber(Append(sq, hit.v[1])), TRUE, "splice", sums)
      [] hit.kind = "PrimeNumber" ->
             Outcome(Convergent(Append(Append(sq, hit.v[1]), hit.v[2])), TRUE, "splice", sums)
      [] hit.kind = "Convergent" ->
             Outcome(Convergent(splice_list(sq, hit.v)), TRUE, "splice", sums)
      [] hit.kind = "AmicableNumber" ->
             IF hit.v[1] = next /\ hit.v[2] = n
             THEN Outcome(AmicableNumber(n, next), FALSE, "amicable_reverse", sums)
             ELSE Outcome(IntoCycle(sq, <<hit.v[1], hit.v[2]>>), TRUE, "splice", sums)
      [] hit.kind = "SociableNumber" ->
             Outcome(IntoCycle(sq, hit.v), TRUE, "splice", sums)
      [] hit.kind = "AspiringNumber" ->
             Outcome(AspiringNumber(splice_list(sq, hit.v)), TRUE, "splice", sums)
      [] hit.kind = "IntoCycle" ->
             Outcome(IntoCycle(splice_list(sq, hit.v), hit.c), TRUE, "splice", sums)
      [] hit.kind = "Unknown" ->
             Outcome(Unknown(splice_list(sq, hit.v)), TRUE, "splice", sums)

\* seq.split_off(pos) at the first position of next (unwrap_or(0))
\* A faulty variant of split_at_cycle: the cycle is copied out of the
\* sequence and not split off it, so the prefix keeps the cycle.
split_at_cycle_copied(sq, next) ==
    LET p == find_pos_n(sq, next)
        pos == IF p >= 0 THEN p ELSE 0
    IN  IntoCycle(sq, slice_from(sq, pos))

split_at_cycle(sq, next) ==
    LET p == find_pos_n(sq, next)
        pos == IF p >= 0 THEN p ELSE 0
    IN  IntoCycle(SubSeq(sq, 1, pos), slice_from(sq, pos))

\* for _i in 1..self.max_len_seq: the i-th iteration takes place
budget_left(self, i) == i < self.max_len_seq

\* the body of the loop for the Ok(next) arm, after the ceiling check
RECURSIVE seq_loop(_, _, _, _, _)
seq_step(self, n, sq, lut_seq, i, next) ==
    LET len_seq == Len(sq)
        last_elem == sq[len_seq]
        hit == get(self.cache, next)
    IN  IF hit # None
        THEN splice(n, next, sq, hit, i)
        ELSE IF next = ONE
        THEN IF len_seq = 1
             THEN Outcome(PrimeNumber(n, ONE), TRUE, "prime", i)
             ELSE Outcome(Convergent(Append(sq, ONE)), TRUE, "convergent", i)
        ELSE IF next = n
        THEN IF len_seq = 1
             THEN Outcome(PerfectNumber(n), TRUE, "perfect", i)
             ELSE IF len_seq = 2
             THEN Outcome(AmicableNumber(n, last_elem), TRUE, "amicable", i)
             ELSE Outcome(SociableNumber(sq), TRUE, "sociable", i)
        ELSE IF next = last_elem
        THEN Outcome(AspiringNumber(sq), TRUE, "aspiring", i)
        ELSE IF next \in lut_seq
        THEN Outcome(split_at_cycle(sq, next), TRUE, "into_cycle", i)
        ELSE seq_loop(self, n, Append(sq, next), lut_seq \cup {next}, i + 1)

\* the loop of aliquot_seq; i is the loop variable _i
seq_loop(self, n, sq, lut_seq, i) ==
    IF ~budget_left(self, i)
    THEN Outcome(Unknown(sq), TRUE, "budget", i - 1)
    ELSE LET s == Self_aliquot_sum(sq[Len(sq)])
         IN  IF ~s.ok
             THEN Outcome(Unknown(sq), TRUE, "overflow", i)
             ELSE IF exceeds_max_num(self, s.val)
             THEN Outcome(Unknown(sq), TRUE, "ceiling", i)
             ELSE seq_step(self, n, sq, lut_seq, i, s.val)

\* Generator::aliquot_seq, up to the call of cache.add_and_return
aliquot_seq(self, n) ==
    IF is_undefined(n)
    THEN Outcome(Unknown(<<n>>), FALSE, "undefined", 0)
    ELSE LET hit == get(self.cache, n)
         IN  IF hit # None
             THEN Outcome(hit, FALSE, "hit", 0)
             ELSE seq_loop(self, n, <<n>>, {}, 1)

\* Cache::add_and_return inside aliquot_seq: the Generator after the call
after_call(self, out) ==
    IF out.add THEN [self EXCEPT !.cache = add(@, out.ret)] ELSE self

(***************************************************************************)
(* Bounds of the model                                                     *)
(***************************************************************************)
MaxCalls == 4      \* aliquot_seq calls per run
SmallLen == 3      \* a small max_len_seq
SmallCache == 4    \* a small max_cache_size
SmallNum == 10     \* a small max_num
MaxSumN == 400     \* aliquot_sum is applied to 0..MaxSumN
TopSpan == 40      \* and to MAX - TopSpan .. MAX

\* The configurations a Generator is created with (max_num, max_len_seq,
\* max_cache_size) and the build profile it runs in.
Configs ==
    {[g |-> GeneratorNew, oc |-> FALSE],
     [g |-> with_params(MAX, SmallLen, DefaultMaxCacheSize), oc |-> FALSE],
     [g |-> with_params(SmallNum, DefaultMaxLenSeq, DefaultMaxCacheSize), oc |-> FALSE],
     [g |-> with_params(MAX, DefaultMaxLenSeq, SmallCache), oc |-> FALSE],
     [g |-> with_params(MAX, DefaultMaxLenSeq, SmallCache), oc |-> TRUE]}

NoCall == [n |-> 0, ret |-> None, path |-> "none", sums |-> 0, stored |-> FALSE]
NoSum == [ok |-> FALSE, val |-> 0, ovf |-> FALSE, done |-> FALSE]
NoViews == [len |-> 0, seq |-> <<>>, done |-> FALSE]

PureIdle == sum_n = 0 /\ sum_res = NoSum /\ val = None /\ val_views = NoViews

GenIdle ==
    /\ gener = GeneratorNew
    /\ overflow_checks = FALSE
    /\ panicked = FALSE
    /\ calls = 0
    /\ last = NoCall

NoOp == [kind |-> "none", arg |-> None, x |-> 0, pre |-> CacheNew(0),
         ret |-> None, accepted |-> FALSE]

CacheIdle ==
    /\ cch = CacheNew(0)
    /\ fresh = CacheNew(0)
    /\ cop = NoOp
    /\ accepted_sum = 0
    /\ adds = 0
    /\ clears = 0

NoArgs == [tokens |-> <<>>, n_threads |-> 1, aliquot_sum_only |-> FALSE,
           max_cache_size |-> DefaultMaxCacheSize]
NoMain == [pc |-> "idle"]

MainIdle == args = NoArgs /\ mn = NoMain /\ wk = <<>>

(***************************************************************************)
(* Spec: a Generator is created and aliquot_seq is called on it.           *)
(***************************************************************************)
Init ==
    /\ \E cfg \in Configs : gener = cfg.g /\ overflow_checks = cfg.oc
    /\ panicked = FALSE
    /\ calls = 0
    /\ last = NoCall
    /\ PureIdle
    /\ CacheIdle
    /\ MainIdle

\* gener.aliquot_seq(n)
Call(n) ==
    /\ ~panicked
    /\ calls < MaxCalls
    /\ calls' = calls + 1
    /\ LET out == aliquot_seq(gener, n)
       IN  IF out.add /\ add_panics(gener.cache)
           THEN /\ panicked' = TRUE
                /\ last' = [n |-> n, ret |-> None, path |-> "panic",
                            sums |-> out.sums, stored |-> FALSE]
                /\ UNCHANGED gener
           ELSE /\ gener' = after_call(gener, out)
                /\ last' = [n |-> n, ret |-> out.ret, path |-> out.path,
                            sums |-> out.sums,
                            stored |-> out.add /\ add_accepts(gener.cache, out.ret)]
                /\ UNCHANGED panicked
    /\ UNCHANGED <<overflow_checks, sum_n, sum_res, val, val_views>>
    /\ UNCHANGED <<cache_vars, main_vars>>

Next == \E n \in Inputs : Call(n)

Spec == Init /\ [][Next]_vars

(***************************************************************************)
(* SpecSum: Generator::aliquot_sum applied to one number.                  *)
(***************************************************************************)
SumInputs == (0..MaxSumN) \cup ((MAX - TopSpan)..MAX) \cup Specials
                 \cup {8128, 23760, 25740, 27720, 32768, 55440, 65025}

InitSum ==
    /\ GenIdle
    /\ sum_n \in SumInputs
    /\ sum_res = NoSum
    /\ val = None
    /\ val_views = NoViews
    /\ CacheIdle
    /\ MainIdle

ComputeSum ==
    /\ ~sum_res.done
    /\ sum_res' = [ok |-> aliquot_sum(sum_n).ok, val |-> aliquot_sum(sum_n).val,
                   ovf |-> aliquot_sum(sum_n).ovf, done |-> TRUE]
    /\ UNCHANGED <<gener, overflow_checks, panicked, calls, last, sum_n, val, val_views>>
    /\ UNCHANGED <<cache_vars, main_vars>>

NextSum == ComputeSum

SpecSum == InitSum /\ [][NextSum]_vars

(***************************************************************************)
(* SpecVal: the views len and seq applied to one classification value.     *)
(***************************************************************************)
MaxValLen == 2     \* payload lists of up to MaxValLen numbers
MaxValNum == 2     \* over the numbers 0..MaxValNum

ValLists == UNION {[1..k -> 0..MaxValNum] : k \in 0..MaxValLen}

Values ==
    {PerfectNumber(n) : n \in 0..MaxValNum}
    \cup {PrimeNumber(p[1], p[2]) : p \in (0..MaxValNum) \X (0..MaxValNum)}
    \cup {AmicableNumber(p[1], p[2]) : p \in (0..MaxValNum) \X (0..MaxValNum)}
    \cup {Convergent(v) : v \in ValLists}
    \cup {SociableNumber(v) : v \in ValLists}
    \cup {AspiringNumber(v) : v \in ValLists}
    \cup {Unknown(v) : v \in ValLists}
    \cup {IntoCycle(p[1], p[2]) : p \in ValLists \X ValLists}

InitVal ==
    /\ GenIdle
    /\ sum_n = 0
    /\ sum_res = NoSum
    /\ val \in Values
    /\ val_views = NoViews
    /\ CacheIdle
    /\ MainIdle

ComputeViews ==
    /\ ~val_views.done
    /\ val_views' = [len |-> len(val), seq |-> seq(val), done |-> TRUE]
    /\ UNCHANGED <<gener, overflow_checks, panicked, calls, last, sum_n, sum_res, val>>
    /\ UNCHANGED <<cache_vars, main_vars>>

NextVal == ComputeViews

SpecVal == InitVal /\ [][NextVal]_vars

(***************************************************************************)
(* SpecCache: a Cache is created and used directly through add, clear and  *)
(* get.  fresh is the Cache a caller would have, had they created a new    *)
(* one in place of calling clear.                                          *)
(***************************************************************************)
MaxAdds == 3       \* add calls per run
MaxClears == 1     \* clear calls per run

\* Classifications handed to add: every variant, lists that share interior
\* members, the same starting number under several variants, a list that
\* repeats its starting number, an amicable pair whose mirror key is the
\* starting number of other values, a list too long for SmallCache, a list
\* whose last element also occurs inside it, and the chain of 25, which
\* ends at the perfect number 6.
AddValues ==
    {PerfectNumber(2),
     PrimeNumber(3, 1),
     AmicableNumber(2, 3),
     AmicableNumber(4, 3),
     Convergent(<<4, 3, 1>>),
     Convergent(<<3, 2, 1>>),
     AspiringNumber(<<4, 3, 2>>),
     SociableNumber(<<2, 3, 4>>),
     SociableNumber(<<3, 4, 2>>),
     IntoCycle(<<4, 3>>, <<2>>),
     IntoCycle(<<3, 4>>, <<2, 2>>),
     Unknown(<<4, 3, 2>>),
     Unknown(<<2, 3, 2>>),
     Unknown(<<3>>),
     Unknown(<<3, 4, 2, 1>>),
     Unknown(<<4, 3, 2, 3>>),
     AspiringNumber(<<25, 6>>)}

\* the numbers asked of get: all that occur in AddValues, and 0
GetKeys == {0} \cup UNION {{seq(a)[i] : i \in 1..Len(seq(a))} : a \in AddValues}

\* max_cache_size and the build profile of the program using the Cache
CacheConfigs ==
    {[m |-> SmallCache, oc |-> FALSE],
     [m |-> SmallCache, oc |-> TRUE],
     [m |-> DefaultMaxCacheSize, oc |-> FALSE]}

InitCache ==
    /\ \E cfg \in CacheConfigs :
           /\ cch = CacheNew(cfg.m)
           /\ fresh = CacheNew(cfg.m)
           /\ overflow_checks = cfg.oc
    /\ cop = NoOp
    /\ accepted_sum = 0
    /\ adds = 0
    /\ clears = 0
    /\ gener = GeneratorNew
    /\ panicked = FALSE
    /\ calls = 0
    /\ last = NoCall
    /\ PureIdle
    /\ MainIdle

\* cch.add(a)
Add(a) ==
    /\ ~panicked
    /\ adds < MaxAdds
    /\ adds' = adds + 1
    /\ IF add_panics(cch)
       THEN /\ panicked' = TRUE
            /\ cop' = [kind |-> "add", arg |-> a, x |-> number(a), pre |-> cch,
                       ret |-> None, accepted |-> FALSE]
            /\ UNCHANGED <<cch, fresh, accepted_sum>>
       ELSE /\ cch' = add(cch, a)
            /\ fresh' = add(fresh, a)
            /\ cop' = [kind |-> "add", arg |-> a, x |-> number(a), pre |-> cch,
                       ret |-> None, accepted |-> add_accepts(cch, a)]
            /\ accepted_sum' = accepted_sum + (IF add_accepts(cch, a) THEN len(a) ELSE 0)
            /\ UNCHANGED panicked
    /\ UNCHANGED <<clears, gener, overflow_checks, calls, last>>
    /\ UNCHANGED <<sum_n, sum_res, val, val_views, main_vars>>

\* cch.clear()
Clear ==
    /\ ~panicked
    /\ clears < MaxClears
    /\ clears' = clears + 1
    /\ cch' = clear(cch)
    /\ fresh' = CacheNew(cch.max_cache_size)
    /\ accepted_sum' = 0
    /\ cop' = [kind |-> "clear", arg |-> None, x |-> 0, pre |-> cch,
               ret |-> None, accepted |-> FALSE]
    /\ UNCHANGED <<adds, gener, overflow_checks, panicked, calls, last>>
    /\ UNCHANGED <<sum_n, sum_res, val, val_views, main_vars>>

\* cch.get(x)
Get(x) ==
    /\ ~panicked
    /\ cop' = [kind |-> "get", arg |-> None, x |-> x, pre |-> cch,
               ret |-> get(cch, x), accepted |-> FALSE]
    /\ UNCHANGED <<cch, fresh, accepted_sum, adds, clears>>
    /\ UNCHANGED <<gener, overflow_checks, panicked, calls, last>>
    /\ UNCHANGED <<sum_n, sum_res, val, val_views, main_vars>>

NextCache ==
    \/ \E a \in AddValues : Add(a)
    \/ Clear
    \/ \E x \in GetKeys : Get(x)

SpecCache == InitCache /\ [][NextCache]_vars

(***************************************************************************)
(* SpecMain: the binary (src/src/main.rs).  run() parses the command line, *)
(* distributes the ranges, spawns one worker thread per workload, joins    *)
(* the handles in spawn order; main() prints a failure and the process     *)
(* exits.  The binary instantiates Generator at u64; it is modelled at the *)
(* width of this module's T.  The text of a token is modelled by its       *)
(* numbers: whether it holds a '-', and the values of START and END.       *)
(***************************************************************************)
MaxTokens == 2     \* range tokens on the command line
MaxThreads == 2    \* -t takes the values 0..MaxThreads

\* the token START-END, and the token of a single number
Rng(s, e) == [dash |-> TRUE, start |-> s, end |-> e]
Num(n) == [dash |-> FALSE, start |-> n, end |-> n]

\* Tokens: single numbers whose sequences share members, a number whose
\* divisor sum overflows, a range of three numbers, ranges whose END is
\* START - 1 and START - 2, and a range that ends at the top of the type.
TokenSet == {Num(4), Num(3), Num(25200), Rng(2, 4), Rng(5, 4), Rng(5, 3), Rng(3, MAX)}

TokenLists == UNION {[1..k -> TokenSet] : k \in 0..MaxTokens}

\* one token of arg.split(','): the range it stands for, whether END + 1 (or
\* num + 1) left the type, and whether the range is refused
parse_token(tok) ==
    LET end == tok.end + 1
    IN  [range |-> [start |-> tok.start, end |-> WrapT(end)],
         ovf |-> end > MAX,
         invalid |-> tok.dash /\ WrapT(end) < tok.start]

\* the loop over the range tokens, left at the first failure
RECURSIVE parse_args(_, _, _)
parse_args(tokens, i, ranges) ==
    IF i > Len(tokens)
    THEN [status |-> "ok", ranges |-> ranges]
    ELSE LET p == parse_token(tokens[i])
         IN  IF p.ovf /\ overflow_checks
             THEN [status |-> "panic", ranges |-> ranges]
             ELSE IF p.invalid
             THEN [status |-> "invalid_range", ranges |-> ranges]
             ELSE parse_args(tokens, i + 1, Append(ranges, p.range))

\* A faulty variant of split_range: the last thread gets a chunk of
\* n_per_thread numbers like the others, without the remainder.
split_range_even(r, n_threads, i) ==
    LET n_per_thread == (r.end - r.start) \div n_threads
    IN  [start |-> r.start + (i * n_per_thread),
         end |-> r.start + ((i + 1) * n_per_thread)]

\* the chunk of the single range for thread i (0-based)
split_range(r, n_threads, i) ==
    LET n_per_thread == (r.end - r.start) \div n_threads
    IN  [start |-> r.start + (i * n_per_thread),
         end |-> IF i = n_threads - 1
                 THEN r.end
                 ELSE r.start + ((i + 1) * n_per_thread)]

\* workload[i] for thread i (0-based)
workload_of(ranges, n_threads, i) ==
    IF Len(ranges) = 1 /\ n_threads > 1
    THEN <<split_range(ranges[1], n_threads, i)>>
    ELSE LET k == IF i < Len(ranges)
                  THEN (Len(ranges) - i + n_threads - 1) \div n_threads
                  ELSE 0
         IN  [m \in 1..k |-> ranges[i + ((m - 1) * n_threads) + 1]]

\* workload[i % n_threads] with n_threads = 0
distribute_panics(ranges, n_threads) == n_threads = 0 /\ Len(ranges) > 0

\* for n in range
range_numbers(r) ==
    [i \in 1..(IF r.end > r.start THEN r.end - r.start ELSE 0) |-> r.start + i - 1]

\* for range in w { for n in range }: the numbers a worker goes through
RECURSIVE workload_numbers(_, _)
workload_numbers(w, i) ==
    IF i > Len(w) THEN <<>> ELSE range_numbers(w[i]) \o workload_numbers(w, i + 1)

\* a worker thread at its start: its numbers, its own Generator, no output
new_worker(w) ==
    [pc |-> "running",
     todo |-> workload_numbers(w, 1),
     gener |-> with_params(MAX, DefaultMaxLenSeq, args.max_cache_size \div args.n_threads),
     out |-> <<>>]

\* A faulty variant of worker_gener: all workers use the Generator of the
\* first one.
worker_gener_shared(w) == 1

\* the worker whose Generator the closure of worker w calls: its own
worker_gener(w) == w

\* one number of the worker's loops, on the Generator g: the worker and the
\* Generator after it
worker_step(rec, g) ==
    IF rec.todo = <<>>
    THEN [rec |-> [rec EXCEPT !.pc = "ok"], g |-> g]
    ELSE LET n == Head(rec.todo)
         IN  IF args.aliquot_sum_only
             THEN LET r == Self_aliquot_sum(n)
                  IN  IF r.ok
                      THEN [rec |-> [rec EXCEPT !.todo = Tail(@),
                                                !.out = Append(@, <<n, r.val>>)],
                            g |-> g]
                      ELSE [rec |-> [rec EXCEPT !.pc = "err"], g |-> g]
             ELSE LET o == aliquot_seq(g, n)
                  IN  IF o.add /\ add_panics(g.cache)
                      THEN [rec |-> [rec EXCEPT !.pc = "panicked"], g |-> g]
                      ELSE [rec |-> [rec EXCEPT !.todo = Tail(@),
                                                !.out = Append(@, <<n, o.ret>>)],
                            g |-> after_call(g, o)]

MainStart == [pc |-> "start", parsed |-> "no", ranges |-> <<>>, workload |-> <<>>,
              next |-> 0, joined |-> 0, err |-> "none"]

\* the options of a run and the build profile of the binary
InitMain ==
    /\ \E toks \in TokenLists, t \in 0..MaxThreads, s \in BOOLEAN,
          cfg \in {[m |-> DefaultMaxCacheSize, oc |-> FALSE], [m |-> SmallCache, oc |-> TRUE]} :
           /\ args = [tokens |-> toks, n_threads |-> t, aliquot_sum_only |-> s,
                      max_cache_size |-> cfg.m]
           /\ overflow_checks = cfg.oc
    /\ mn = MainStart
    /\ wk = <<>>
    /\ gener = GeneratorNew
    /\ panicked = FALSE
    /\ calls = 0
    /\ last = NoCall
    /\ PureIdle
    /\ CacheIdle

MainFrame ==
    /\ UNCHANGED <<args, gener, overflow_checks, panicked, calls, last>>
    /\ UNCHANGED <<sum_n, sum_res, val, val_views, cache_vars>>

\* the loop over args
ParseArgs ==
    /\ mn.pc = "start"
    /\ LET p == parse_args(args.tokens, 1, <<>>)
       IN  mn' = CASE p.status = "panic" ->
                         [mn EXCEPT !.pc = "panicked", !.parsed = "panic"]
                   [] p.status = "invalid_range" ->
                         [mn EXCEPT !.pc = "returned_err", !.parsed = "invalid_range",
                                    !.err = "InvalidRange"]
                   [] OTHER ->
                         [mn EXCEPT !.pc = "distribute", !.parsed = "ok",
                                    !.ranges = p.ranges]
    /\ UNCHANGED wk
    /\ MainFrame

\* Distribute work to independent threads
Distribute ==
    /\ mn.pc = "distribute"
    /\ mn' = IF distribute_panics(mn.ranges, args.n_threads)
             THEN [mn EXCEPT !.pc = "panicked"]
             ELSE [mn EXCEPT !.pc = "spawn", !.next = 1,
                             !.workload = [i \in 1..args.n_threads |->
                                 workload_of(mn.ranges, args.n_threads, i - 1)]]
    /\ UNCHANGED wk
    /\ MainFrame

\* for w in workload: thread::spawn, handles.push
Spawn ==
    /\ mn.pc = "spawn"
    /\ IF mn.next > Len(mn.workload)
       THEN /\ mn' = [mn EXCEPT !.pc = "join", !.next = 1]
            /\ UNCHANGED wk
       ELSE /\ mn' = [mn EXCEPT !.next = @ + 1]
            /\ wk' = Append(wk, new_worker(mn.workload[mn.next]))
    /\ MainFrame

\* worker w handles its next number, or returns Ok(()) after the last one
WorkerStep(w) ==
    /\ mn.pc # "exited"
    /\ wk[w].pc = "running"
    /\ LET o == worker_gener(w)
           r == worker_step(wk[w], wk[o].gener)
       IN  wk' = [x \in 1..Len(wk) |->
                     IF x = w
                     THEN [r.rec EXCEPT !.gener = IF o = w THEN r.g ELSE @]
                     ELSE IF x = o
                     THEN [wk[x] EXCEPT !.gener = r.g]
                     ELSE wk[x]]
    /\ UNCHANGED mn
    /\ MainFrame

\* h.join().unwrap()? on the next handle
Join ==
    /\ mn.pc = "join"
    /\ IF mn.next > Len(wk)
       THEN mn' = [mn EXCEPT !.pc = "returned_ok"]
       ELSE /\ wk[mn.next].pc \in {"ok", "err", "panicked"}
            /\ mn' = CASE wk[mn.next].pc = "ok" ->
                              [mn EXCEPT !.next = @ + 1, !.joined = @ + 1]
                        [] wk[mn.next].pc = "err" ->
                              [mn EXCEPT !.pc = "returned_err", !.joined = @ + 1,
                                         !.err = "OverflowError"]
                        [] OTHER ->
                              [mn EXCEPT !.pc = "panicked", !.joined = @ + 1]
    /\ UNCHANGED wk
    /\ MainFrame

\* main returns (or unwinds): the process ends and with it every thread
Exit ==
    /\ mn.pc \in {"returned_ok", "returned_err", "panicked"}
    /\ mn' = [mn EXCEPT !.pc = "exited"]
    /\ wk' = [x \in 1..Len(wk) |->
                 IF wk[x].pc = "running" THEN [wk[x] EXCEPT !.pc = "killed"] ELSE wk[x]]
    /\ MainFrame

NextMain ==
    \/ ParseArgs
    \/ Distribute
    \/ Spawn
    \/ \E w \in 1..Len(wk) : WorkerStep(w)
    \/ Join
    \/ Exit

SpecMain == InitMain /\ [][NextMain]_vars

(***************************************************************************)
(* Properties                                                              *)
(***************************************************************************)
\* the latest aliquot_seq call returned a classification
Returned == last.path \notin {"none", "panic"}

\* a Generator newly created with the parameters of gener
FreshGener == with_params(gener.max_num, gener.max_len_seq, gener.cache.max_cache_size)

\* the sum of the d in lo..hi that divide n
RECURSIVE DivisorSum(_, _, _)
DivisorSum(n, lo, hi) ==
    IF lo > hi
    THEN 0
    ELSE IF lo = hi
    THEN (IF n % lo = 0 THEN lo ELSE 0)
    ELSE LET mid == (lo + hi) \div 2
         IN  DivisorSum(n, lo, mid) + DivisorSum(n, mid + 1, hi)

\* the sum of all d with 1 <= d < n that divide n
ProperDivisorSum(n) == DivisorSum(n, 1, n - 1)

\* C1: the classification aliquot_seq returns for n is the one a newly
\* created Generator with the same max_num and max_len_seq returns for n,
\* whatever was classified before.
C1_MemoTransparent ==
    Returned => last.ret = aliquot_seq(FreshGener, last.n).ret

\* C2: a number n >= 2 whose divisor sum is 1 is returned as
\* PrimeNumber((n, 1)) in every cache state.
C2_PrimeIsPrimeNumber ==
    (Returned /\ last.n >= 2 /\ aliquot_sum(last.n).ok /\ aliquot_sum(last.n).val = 1)
        => last.ret = PrimeNumber(last.n, 1)

\* C3: right after aliquot_seq(n) returned r, a second aliquot_seq(n) on the
\* same Generator returns r again (and does not panic), also when r did not
\* fit into the cache.
C3_Idempotent ==
    Returned =>
        LET again == aliquot_seq(gener, last.n)
        IN  /\ again.ret = last.ret
            /\ ~(again.add /\ add_panics(gener.cache))

C3_Witness ==
    /\ Returned
    /\ last.path \notin {"undefined", "hit", "amicable_reverse"}
    /\ ~last.stored
    /\ Len(seq(last.ret)) >= 2

\* C4 as stated: after aliquot_seq(n) returned r for n >= 2, other than by
\* the amicable-reverse splice, cache.get(n) returns r.
C4_AlwaysCached ==
    (Returned /\ last.n >= 2 /\ last.path # "amicable_reverse")
        => get(gener.cache, last.n) = last.ret

\* C4 amended: after aliquot_seq(n) returned r for n >= 2, served from the
\* cache or accepted by add, cache.get(n) returns r and a following
\* aliquot_seq(n) is a cache hit that evaluates no aliquot_sum.
C4_CachedWhenAccepted ==
    (Returned /\ last.n >= 2 /\ (last.stored \/ last.path = "hit"))
        => /\ get(gener.cache, last.n) = last.ret
           /\ aliquot_seq(gener, last.n).path = "hit"
           /\ aliquot_seq(gener, last.n).sums = 0

C4_Witness ==
    /\ Returned
    /\ last.n >= 2
    /\ last.stored
    /\ last.sums >= 2

\* the rotation of the cycle or the tail of the flattened sequence that
\* starts at 1-based position i
ExpectedFrom(a, i) ==
    IF a.kind = "SociableNumber"
    THEN SubSeq(a.v, i, Len(a.v)) \o SubSeq(a.v, 1, i - 1)
    ELSE SubSeq(seq(a), i, Len(seq(a)))

\* the interior members of the flattened sequence of a, as 1-based positions
Interior(a) == 2..(Len(seq(a)) - 1)

\* the interior members that add registers: those of the first list
InteriorRegistered(a) ==
    IF a.kind = "IntoCycle" THEN 2..Len(a.v) ELSE Interior(a)

RoundTrip(a, i) ==
    LET g == get(gener.cache, seq(a)[i])
    IN  g # None /\ seq(g) = ExpectedFrom(a, i)

C6_SumCorrect ==
    (sum_res.done /\ ProperDivisorSum(sum_n) <= MAX)
        => sum_res.ok /\ sum_res.val = ProperDivisorSum(sum_n)

\* a perfect square above 1 whose only root divisor is counted once
C6_Witness ==
    /\ sum_res.done
    /\ sum_res.ok
    /\ \E r \in 2..255 : r * r = sum_n
    /\ sum_res.val = ProperDivisorSum(sum_n)

\* C7: aliquot_sum(n) is Err exactly when the sum of the proper divisors of n
\* exceeds MAX, and no intermediate value leaves 0..MAX.
C7_NoWrap ==
    sum_res.done =>
        /\ (~sum_res.ok) <=> (ProperDivisorSum(sum_n) > MAX)
        /\ ~sum_res.ovf

C7_Witness == sum_res.done /\ ~sum_res.ok /\ ProperDivisorSum(sum_n) > MAX

\* C8: aliquot_seq(0) and aliquot_seq(1) return Unknown([n]) and leave the
\* Generator (store, LUT, cache_count) as it was.
C8_UndefinedUncached ==
    [][(calls' = calls + 1 /\ last'.n \in {0, 1})
          => /\ last'.ret = Unknown(<<last'.n>>)
             /\ gener' = gener
             /\ ~panicked']_vars

C8_Witness ==
    /\ last.path = "undefined"
    /\ last.n = 1
    /\ DOMAIN gener.cache.cache # {}
    /\ DOMAIN gener.cache.cache_lut # {}

\* C9: a returned classification has non-empty payload lists and starts with
\* the number it was asked for: number() = seq()[0] = n.
C9_StartsWithN ==
    Returned =>
        /\ last.ret.v # <<>>
        /\ (last.ret.kind = "IntoCycle" => last.ret.c # <<>>)
        /\ number(last.ret) = last.n
        /\ seq(last.ret)[1] = last.n

\* a result reconstructed through the LUT, and one built by a splice
C9_Witness ==
    /\ Returned
    /\ \/ last.path = "hit" /\ last.n \notin DOMAIN gener.cache.cache
       \/ last.path = "splice"
    /\ number(last.ret) = last.n

\* C10: len() is the number of elements of seq(); for IntoCycle the two
\* lists are counted and seq() is the first list followed by the second.
C10_LenIsSeqLen ==
    val_views.done =>
        /\ val_views.len = Len(val_views.seq)
        /\ (val.kind = "IntoCycle" =>
               /\ val_views.len = Len(val.v) + Len(val.c)
               /\ SubSeq(val_views.seq, 1, Len(val.v)) = val.v
               /\ SubSeq(val_views.seq, Len(val.v) + 1, Len(val_views.seq)) = val.c)

C10_Witness ==
    /\ val_views.done
    /\ val.kind = "IntoCycle"
    /\ Len(val.v) >= 1
    /\ Len(val.c) >= 2
    /\ val_views.len = Len(val.v) + Len(val.c)

\* C11: with max_len_seq >= 1, a returned classification holds at most
\* max_len_seq numbers, whatever was classified before.
C11_LenWithinBudget ==
    (Returned /\ gener.max_len_seq >= 1) => len(last.ret) <= gener.max_len_seq

\* C12: in a returned classification every element after the starting number
\* is below max_num, also when a cached or reconstructed tail was spliced in.
C12_BelowCeiling ==
    Returned => \A i \in 2..Len(seq(last.ret)) : seq(last.ret)[i] < gener.max_num

\* a spliced result of a starting number that is itself above the ceiling
C12_Witness ==
    /\ Returned
    /\ gener.max_num = SmallNum
    /\ last.path = "splice"
    /\ last.n >= gener.max_num
    /\ Len(seq(last.ret)) >= 2

\* C13: the element count of a Cache never exceeds max_cache_size, so the
\* remaining budget computed by add is never negative.
C13_CountBounded == count(cch) <= cch.max_cache_size

\* C14: the element count of a Cache is the sum of len() over the
\* classifications add accepted since the Cache was created or cleared.
C14_CountIsAcceptedSum == count(cch) = accepted_sum

\* C15: add of a classification whose number is already a key returns and
\* leaves the store, the LUT and the element count as they were.
C15_FirstWriterWins ==
    (cop.kind = "add" /\ cop.x \in DOMAIN cop.pre.cache)
        => /\ ~panicked
           /\ cch.cache = cop.pre.cache
           /\ cch.cache_lut = cop.pre.cache_lut
           /\ cch.cache_count = cop.pre.cache_count

\* C16: after add accepted AmicableNumber((n, m)), get(n) is
\* AmicableNumber((n, m)) and get(m) is AmicableNumber((m, n)); whenever
\* aliquot_seq returned AmicableNumber((n, m)), a following aliquot_seq(m)
\* returns AmicableNumber((m, n)) without panicking; and in every later
\* state a stored AmicableNumber((n, m)) still has its mirror under m.
C16_AmicableBothHit ==
    /\ (Returned /\ last.ret.kind = "AmicableNumber") =>
           LET n == last.ret.v[1]
               m == last.ret.v[2]
               again == aliquot_seq(gener, m)
           IN  /\ last.stored =>
                      /\ get(gener.cache, n) = AmicableNumber(n, m)
                      /\ get(gener.cache, m) = AmicableNumber(m, n)
                      /\ again.path = "hit"
               /\ again.ret = AmicableNumber(m, n)
               /\ ~(again.add /\ add_panics(gener.cache))
    /\ \A n \in DOMAIN gener.cache.cache :
           LET e == get(gener.cache, n)
           IN  e.kind = "AmicableNumber" =>
                   /\ e.v[1] = n
                   /\ aliquot_seq(gener, e.v[2]).ret = AmicableNumber(e.v[2], n)

\* the pair 220/284 classified from one member and accepted by add
C16_Witness ==
    /\ Returned
    /\ last.path = "amicable"
    /\ last.stored
    /\ last.ret = AmicableNumber(284, 220)
    /\ get(gener.cache, 220) = AmicableNumber(220, 284)

\* C17: right after clear the Cache is empty (n_seq, count, every get), and
\* from then on it answers get, n_seq and count, and accepts or refuses add,
\* as a Cache newly created with the same max_cache_size that received the
\* same adds.
C17_ClearIsNew ==
    /\ cop.kind = "clear" =>
           /\ n_seq(cch) = 0
           /\ count(cch) = 0
           /\ \A x \in GetKeys : get(cch, x) = None
    /\ clears >= 1 =>
           /\ cch.max_cache_size = fresh.max_cache_size
           /\ n_seq(cch) = n_seq(fresh)
           /\ count(cch) = count(fresh)
           /\ \A x \in GetKeys : get(cch, x) = get(fresh, x)
           /\ \A a \in AddValues : add_accepts(cch, a) = add_accepts(fresh, a)
           /\ add_panics(cch) = add_panics(fresh)

\* after clear and further adds, a get answered by reconstruction while the
\* LUT still holds entries made before the clear
C17_Witness ==
    /\ clears >= 1
    /\ cop.kind = "get"
    /\ cop.ret # None
    /\ cop.x \notin DOMAIN cch.cache
    /\ \E y \in DOMAIN cch.cache_lut :
           y \notin DOMAIN fresh.cache_lut \/ fresh.cache_lut[y] # cch.cache_lut[y]

\* C18: when run() reports the failure of a worker, every spawned worker has
\* been joined and none is still running or was ended by the process exit.
C18_FailureAfterAllJoined ==
    (mn.pc \in {"returned_err", "exited"} /\ mn.err = "OverflowError") =>
        /\ mn.joined = Len(wk)
        /\ \A w \in 1..Len(wk) : wk[w].pc \in {"ok", "err", "panicked"}

\* C19: a range token START-END with END < START makes run() return
\* InvalidRange before any worker is started (unless parsing an earlier token
\* panicked).
C19_InvertedRangeRejected ==
    (/\ mn.parsed \in {"ok", "invalid_range"}
     /\ \E i \in 1..Len(args.tokens) :
            args.tokens[i].dash /\ args.tokens[i].end < args.tokens[i].start)
        => /\ mn.parsed = "invalid_range"
           /\ mn.err = "InvalidRange"
           /\ wk = <<>>

\* worker w after k steps on a Generator of its own, run alone
RECURSIVE AloneAfter(_, _)
AloneAfter(w, k) ==
    IF k = 0
    THEN new_worker(mn.workload[w])
    ELSE LET before == AloneAfter(w, k - 1)
             r == worker_step(before, before.gener)
         IN  IF before.pc = "running"
             THEN [r.rec EXCEPT !.gener = r.g]
             ELSE before

\* the worker as the process exit leaves it
Ended(rec) == IF rec.pc = "running" THEN [rec EXCEPT !.pc = "killed"] ELSE rec

\* C20: under every interleaving, each worker is where it is after some
\* number of steps of a run of its own: same output so far, same Generator
\* and cache, same remaining numbers.
C20_WorkerIsolation ==
    \A w \in 1..Len(wk) :
        \E k \in 0..(Len(workload_numbers(mn.workload[w], 1)) + 1) :
            \/ wk[w] = AloneAfter(w, k)
            \/ wk[w].pc = "killed" /\ wk[w] = Ended(AloneAfter(w, k))

\* two workers have both classified their numbers, which share members
C20_Witness ==
    /\ Len(wk) = 2
    /\ ~args.aliquot_sum_only
    /\ wk[1].pc = "ok"
    /\ wk[2].pc = "ok"
    /\ Len(wk[1].out) >= 1
    /\ Len(wk[2].out) >= 1
    /\ \E x \in DOMAIN wk[1].gener.cache.cache_lut :
           x \in DOMAIN wk[2].gener.cache.cache

\* The chain from sq onwards as far as aliquot_seq follows it on Generator g
\* before it looks a value up: found says that a computed value within the
\* step budget and below the ceiling has a cache entry, hit; sq is the
\* sequence in progress at that moment.
RECURSIVE WalkToHit(_, _)
WalkToHit(g, sq) ==
    LET s == Self_aliquot_sum(sq[Len(sq)])
        no == [found |-> FALSE, sq |-> sq, next |-> 0, hit |-> None]
    IN  IF Len(sq) >= g.max_len_seq \/ ~s.ok \/ s.val >= g.max_num
        THEN no
        ELSE IF get(g.cache, s.val) # None
        THEN [found |-> TRUE, sq |-> sq, next |-> s.val, hit |-> get(g.cache, s.val)]
        ELSE IF s.val <= 1 \/ \E i \in 1..Len(sq) : sq[i] = s.val
        THEN no
        ELSE WalkToHit(g, Append(sq, s.val))

\* the splice table: the variant built from the variant found in the cache
SpliceRow(kind) ==
    CASE kind = "PerfectNumber" -> "AspiringNumber"
      [] kind = "PrimeNumber" -> "Convergent"
      [] kind = "Convergent" -> "Convergent"
      [] kind = "AmicableNumber" -> "IntoCycle"
      [] kind = "SociableNumber" -> "IntoCycle"
      [] kind = "IntoCycle" -> "IntoCycle"
      [] kind = "AspiringNumber" -> "AspiringNumber"
      [] kind = "Unknown" -> "Unknown"

\* C21: a call aliquot_seq(n) that is not answered from the cache, reaches a
\* computed value with a cache entry V and returns, returns the variant of
\* the splice table for V, its flattened sequence being the sequence in
\* progress followed by the flattened V (the reverse amicable pair of n is
\* returned as AmicableNumber((n, next))); and only such calls splice.
C21_SpliceConformance ==
    [][(/\ calls' = calls + 1
        /\ last'.path \notin {"panic", "undefined", "hit"})
          => LET w == WalkToHit(gener, <<last'.n>>)
                 reverse == /\ w.hit.kind = "AmicableNumber"
                            /\ w.hit.v = <<w.next, last'.n>>
             IN  /\ w.found <=> last'.path \in {"splice", "amicable_reverse"}
                 /\ (w.found /\ reverse) => last'.ret = AmicableNumber(last'.n, w.next)
                 /\ (w.found /\ ~reverse) =>
                        /\ last'.ret.kind = SpliceRow(w.hit.kind)
                        /\ seq(last'.ret) = w.sq \o seq(w.hit)]_vars

\* a splice onto a tail reconstructed through the LUT, after two computed
\* values
C21_Witness ==
    /\ last.path = "splice"
    /\ last.sums >= 2
    /\ Len(seq(last.ret)) >= 4
    /\ \E x \in DOMAIN gener.cache.cache_lut :
           x = seq(last.ret)[3] /\ gener.cache.cache_lut[x] # last.n

\* each element after the first is the aliquot sum of the element before it
IsChain(sq) ==
    \A i \in 2..Len(sq) :
        LET s == Self_aliquot_sum(sq[i - 1]) IN s.ok /\ s.val = sq[i]

\* no number occurs twice
NoRepeat(sq) == \A i, j \in 1..Len(sq) : sq[i] = sq[j] => i = j

\* C22: every classification returned by aliquot_seq, of every variant and
\* in every reachable cache state, is a genuine aliquot chain: each element
\* of seq() after the first is the aliquot sum of the element before it, and
\* no number occurs twice in seq().
C22_GenuineChain ==
    Returned => IsChain(seq(last.ret)) /\ NoRepeat(seq(last.ret))

\* aliquot_sum(a) is defined and equals b
SumIs(a, b) == LET s == Self_aliquot_sum(a) IN s.ok /\ s.val = b

\* the payload of classification a shows what its variant says
KindWitnessed(a) ==
    LET v == a.v
        c == a.c
    IN  CASE a.kind = "PerfectNumber" -> SumIs(v[1], v[1])
          [] a.kind = "AmicableNumber" -> v[1] # v[2] /\ SumIs(v[2], v[1])
          [] a.kind = "SociableNumber" -> Len(v) >= 3 /\ SumIs(v[Len(v)], v[1])
          [] a.kind = "Convergent" ->
                 /\ Len(v) >= 1
                 /\ v[Len(v)] = ONE
                 /\ \A i \in 1..(Len(v) - 1) : v[i] # ONE
          [] a.kind = "AspiringNumber" ->
                 Len(v) >= 2 /\ SumIs(v[Len(v)], v[Len(v)])
          [] a.kind = "IntoCycle" -> Len(c) >= 1 /\ SumIs(c[Len(c)], c[1])
          [] OTHER -> TRUE

\* C23: the kind of every returned classification is witnessed by its
\* payload: a PerfectNumber is its own aliquot sum, an AmicableNumber (n, m)
\* has n # m and aliquot_sum(m) = n, a SociableNumber has at least 3
\* elements and closes, a Convergent ends in 1 and holds 1 nowhere else, an
\* AspiringNumber has at least 2 elements and ends at a perfect number, and
\* the cycle of an IntoCycle closes.
C23_KindWitnessed == Returned => KindWitnessed(last.ret)

\* an AspiringNumber and an IntoCycle answered by LUT reconstruction, after
\* a SociableNumber was stored by a computed call
C23_Witness ==
    /\ last.path = "hit"
    /\ last.n \notin DOMAIN gener.cache.cache
    /\ last.ret.kind \in {"AspiringNumber", "IntoCycle"}
    /\ \E k \in DOMAIN gener.cache.cache :
           gener.cache.cache[k].kind \in {"SociableNumber", "AmicableNumber"}

\* C24: every IntoCycle(prefix, cycle) returned by aliquot_seq(n), found by
\* cycle detection inside the call, by a splice or by LUT reconstruction,
\* has a non-empty prefix that starts with n, and prefix and cycle share no
\* element, so n is not a member of the cycle.
C24_PrefixDisjointFromCycle ==
    (Returned /\ last.ret.kind = "IntoCycle") =>
        LET prefix == last.ret.v
            cycle == last.ret.c
        IN  /\ Len(prefix) >= 1
            /\ prefix[1] = last.n
            /\ \A i \in 1..Len(prefix), j \in 1..Len(cycle) : prefix[i] # cycle[j]
            /\ \A j \in 1..Len(cycle) : cycle[j] # last.n

\* an IntoCycle reconstructed through the LUT from an entry that a splice
\* onto a stored cycle has built
C24_Witness ==
    /\ last.path = "hit"
    /\ last.ret.kind = "IntoCycle"
    /\ last.n \notin DOMAIN gener.cache.cache
    /\ last.n \in DOMAIN gener.cache.cache_lut
    /\ \E k \in DOMAIN gener.cache.cache :
           /\ gener.cache.cache[k].kind \in {"SociableNumber", "AmicableNumber"}
           /\ gener.cache.cache[k].v[1] = last.ret.c[1]

\* every LUT entry x -> p of cache c has x > 1, p a key of the store, and x
\* at an index >= 1 (counted from 0) of the list stored under p
LutConsistent(c) ==
    \A x \in DOMAIN c.cache_lut :
        LET p == c.cache_lut[x]
        IN  /\ x > ONE
            /\ p \in DOMAIN c.cache
            /\ c.cache[p].kind \in
                   {"Convergent", "SociableNumber", "AspiringNumber", "IntoCycle", "Unknown"}
            /\ \E i \in 2..Len(c.cache[p].v) : c.cache[p].v[i] = x

\* C25: in every state reachable by add, clear and get calls on a cache,
\* every LUT entry x -> p has x > 1, p currently a key of the store, and x
\* at an index >= 1 of the list stored under p.
C25_LutConsistent == LutConsistent(cch)

\* C26: once a key k has an entry in the store, no later add (of any
\* variant, the add of an AmicableNumber (n, k) with its mirror keyed by k
\* included) changes the entry that get(k) returns, until clear() is called.
C26_StoredImmutable ==
    cop.kind = "add" =>
        \A k \in DOMAIN cop.pre.cache : get(cch, k) = get(cop.pre, k)

\* the store of cache c holds AmicableNumber((a, b)) under a iff it holds
\* AmicableNumber((b, a)) under b
Mirrored(c) ==
    \A a \in DOMAIN c.cache :
        c.cache[a].kind = "AmicableNumber" =>
            LET b == c.cache[a].v[2]
            IN  /\ c.cache[a].v[1] = a
                /\ b \in DOMAIN c.cache
                /\ c.cache[b] = AmicableNumber(b, a)

\* C27 as stated: amicable entries come in mirrored pairs in every state
\* reachable by aliquot_seq calls, the reverse branch of the splice is never
\* taken, and no amicable result is returned uncached.
C27_NeverUncached ==
    /\ Mirrored(gener.cache)
    /\ last.path # "amicable_reverse"
    /\ (Returned /\ last.ret.kind = "AmicableNumber") =>
           get(gener.cache, last.n) = last.ret

\* C27, amended: amicable entries come in mirrored pairs in every state
\* reachable by aliquot_seq calls and the reverse branch of the splice is
\* never taken; every amicable result is read from the store or handed to
\* add, and it is returned uncached exactly when add refuses it because the
\* element budget has no room for it.
C27_MirroredPairs ==
    /\ Mirrored(gener.cache)
    /\ last.path # "amicable_reverse"
    /\ (Returned /\ last.ret.kind = "AmicableNumber") =>
           /\ last.path \in {"hit", "amicable"}
           /\ (get(gener.cache, last.n) = last.ret) <=> (last.path = "hit" \/ last.stored)
           /\ (get(gener.cache, last.n) # last.ret) =>
                  /\ ~fits(gener.cache, len(last.ret))
                  /\ get(gener.cache, last.n) = None

\* a member of a pair answered from a store that holds nothing but the pair
\* and its mirror, entered by one add
C27_Witness ==
    /\ last.path = "hit"
    /\ last.ret.kind = "AmicableNumber"
    /\ DOMAIN gener.cache.cache = {last.ret.v[1], last.ret.v[2]}
    /\ count(gener.cache) = 2

\* what a call aliquot_seq(n) that meets an overflow owes: Unknown of the
\* chain computed so far, which starts with n and ends with the number
\* whose aliquot sum overflowed
OverflowResult(n, ret) ==
    /\ ret.kind = "Unknown"
    /\ ret.v[1] = n
    /\ IsChain(ret.v)
    /\ ~Self_aliquot_sum(ret.v[Len(ret.v)]).ok

\* C28: when aliquot_sum fails with overflow during aliquot_seq(n) the call
\* does not fail: it returns Unknown of exactly the chain computed so far,
\* hands that result to add, and later calls on the same Generator proceed
\* normally.
C28_OverflowFoldsIntoUnknown ==
    [][(calls' = calls + 1 /\ aliquot_seq(gener, last'.n).path = "overflow")
          => /\ ~panicked'
             /\ last'.path = "overflow"
             /\ OverflowResult(last'.n, last'.ret)
             /\ gener' = [gener EXCEPT !.cache = add(@, last'.ret)]
             /\ \A m \in Inputs : aliquot_seq(gener', m).path # "none"]_vars

\* the bounds of the claim for a call with outcome sums, path, ret under
\* the step budget max_len_seq
WithinBudget(max_len_seq, sums, path, ret) ==
    /\ sums <= (IF max_len_seq >= 1 THEN max_len_seq - 1 ELSE 0)
    /\ path = "budget" =>
           /\ ret.kind = "Unknown"
           /\ Len(ret.v) = (IF max_len_seq >= 1 THEN max_len_seq ELSE 1)

\* C29: every call aliquot_seq(n) returns, for every n, every cache state
\* and every max_len_seq >= 0, after at most max(0, max_len_seq - 1)
\* evaluations of aliquot_sum; when the budget runs out without a terminal
\* condition the result is Unknown holding exactly max(1, max_len_seq)
\* elements.  The first two conjuncts are about the call just made on the
\* Generator of the behaviour, the third about the first call on a
\* Generator of each small budget, 0 and 1 included.
C29_ReturnsWithinBudget ==
    /\ ~panicked
    /\ Returned => WithinBudget(gener.max_len_seq, last.sums, last.path, last.ret)
    /\ \A l \in 0..SmallLen, n \in Inputs :
           LET out == aliquot_seq(with_params(MAX, l, DefaultMaxCacheSize), n)
           IN  WithinBudget(l, out.sums, out.path, out.ret)

\* x is no key of cache c and its LUT target holds a Convergent,
\* AspiringNumber or Unknown list that ends with x
EndsTargetList(c, x) ==
    /\ x \notin DOMAIN c.cache
    /\ x \in DOMAIN c.cache_lut
    /\ c.cache_lut[x] \in DOMAIN c.cache
    /\ LET e == c.cache[c.cache_lut[x]]
       IN  /\ e.kind \in {"Convergent", "AspiringNumber", "Unknown"}
           /\ e.v[Len(e.v)] = x

\* x occurs in the list of its LUT target at the last position only
OnlyLastOfTargetList(c, x) ==
    /\ EndsTargetList(c, x)
    /\ LET e == c.cache[c.cache_lut[x]]
       IN  \A i \in 1..(Len(e.v) - 1) : e.v[i] # x

\* get of cache c never reconstructs a one-element list
NoSingleReconstruction(c) ==
    \A x \in DOMAIN c.cache_lut \ DOMAIN c.cache :
        get(c, x).kind \in {"Convergent", "AspiringNumber", "Unknown"} =>
            Len(get(c, x).v) >= 2

\* a perfect number p that ends an aspiring sequence stored in cache c, and
\* nothing else, is classified PerfectNumber by a Generator holding c
PerfectStaysPerfect(c) ==
    \A p \in {n \in Inputs : n >= 2 /\ SumIs(n, n)} :
        (OnlyLastOfTargetList(c, p) /\ c.cache[c.cache_lut[p]].kind = "AspiringNumber") =>
            aliquot_seq([GeneratorNew EXCEPT !.cache = c], p).ret = PerfectNumber(p)

NumbersOf(r) == {k \in r.start..(r.end - 1) : TRUE}

\* the work has been distributed for a run with at least one thread
Distributed ==
    /\ args.n_threads >= 1
    /\ mn.parsed = "ok"
    /\ mn.pc \notin {"start", "distribute"}

\* the chunks of the single range r over the workers of workload w: one
\* chunk each, in order, contiguous from r.start to r.end, pairwise
\* disjoint, with the numbers of r as their union
SplitExact(r, w) ==
    /\ \A i \in 1..Len(w) : Len(w[i]) = 1 /\ w[i][1].start <= w[i][1].end
    /\ w[1][1].start = r.start
    /\ w[Len(w)][1].end = r.end
    /\ \A i \in 1..(Len(w) - 1) : w[i][1].end = w[i + 1][1].start
    /\ \A i, j \in 1..Len(w) :
           i # j => NumbersOf(w[i][1]) \cap NumbersOf(w[j][1]) = {}
    /\ UNION {NumbersOf(w[i][1]) : i \in 1..Len(w)} = NumbersOf(r)

\* every range of ranges is in the workload of exactly one worker: a range
\* occurs in the workloads as often as on the command line
EachRangeOnce(ranges, w) ==
    \A j \in 1..Len(ranges) :
        Cardinality({p \in (1..Len(w)) \X (1..Len(ranges)) :
                        p[2] <= Len(w[p[1]]) /\ w[p[1]][p[2]] = ranges[j]})
            = Cardinality({k \in 1..Len(ranges) : ranges[k] = ranges[j]})

SplitSpan == 6     \* single ranges lie within 0..SplitSpan

\* the workload that the distribution builds for the single range r and
\* n_threads threads is an exact split of r
SplitOf(r, n_threads) ==
    SplitExact(r, [i \in 1..n_threads |-> workload_of(<<r>>, n_threads, i - 1)])

\* C31: work distribution loses and duplicates nothing: for every
\* n_threads >= 1 there is one workload per thread; the chunks of a single
\* range are contiguous, pairwise disjoint and their union is the range
\* (also when it has fewer numbers than workers); of several ranges, each
\* is assigned to exactly one worker.  The last conjunct applies the split
\* of the run's n_threads to every range within 0..SplitSpan.
C31_DistributionExact ==
    Distributed =>
        /\ Len(mn.workload) = args.n_threads
        /\ Len(mn.ranges) = 1 => SplitExact(mn.ranges[1], mn.workload)
        /\ Len(mn.ranges) # 1 => EachRangeOnce(mn.ranges, mn.workload)
        /\ \A a \in 0..SplitSpan, b \in 0..SplitSpan :
               a <= b => SplitOf([start |-> a, end |-> b], args.n_threads)

\* a single range split over several threads with a remainder for the last
C31_Witness ==
    /\ Distributed
    /\ args.n_threads > 1
    /\ Len(mn.ranges) = 1
    /\ (mn.ranges[1].end - mn.ranges[1].start) % args.n_threads # 0
    /\ NumbersOf(mn.workload[1][1]) # {}

====
